---- MODULE Spec2Model ----
(***************************************************************************)
(* Live range of one SSA value (lib/cretonne/src/regalloc/liverange.rs):   *)
(* the def interval, the sorted vector of coalesced live-in intervals, and *)
(* the operations that build and move it, against the index-comparing      *)
(* program order that the module's own tests use.                          *)
(***************************************************************************)
EXTENDS Integers, Sequences, FiniteSets

\* Number of EBBs of the function; their indexes are 10, 20, ...
NumEbbs == 4
\* Number of instructions of every EBB; their indexes are ebb+1 .. ebb+MaxInst.
MaxInst == 2
\* ProgOrder: EBB indexes are multiples of 10, instructions lie in between.
EbbStride == 10

VARIABLES
    def_begin,  \* LiveRange::def_begin
    def_end,    \* LiveRange::def_end
    liveins,    \* LiveRange::liveins, a sequence of [begin, end]
    last,       \* the last operation called on the range: how it ended, and
                \* the def_begin it started from
    passed,     \* history: the EBBs passed to extend_in_ebb so far
    trued,      \* history: the EBBs for which extend_in_ebb returned true
    worklist,   \* the liveness walk: the pending <<ebb, to>> items
    preds       \* the liveness walk: the CFG edges <<branch inst, target EBB>>

vars == <<def_begin, def_end, liveins, last, passed, trued, worklist, preds>>

----------------------------------------------------------------------------
\* Program points and the program order of the tests.

Ebbs == {EbbStride * k : k \in 1..NumEbbs}

InstsOf(ebb) == {ebb + i : i \in 1..MaxInst}

Insts == UNION {InstsOf(ebb) : ebb \in Ebbs}

\* The program points of an EBB: its header and its instructions.
PointsOf(ebb) == {ebb} \cup InstsOf(ebb)

Points == Ebbs \cup Insts

\* ProgOrder::cmp: compare the indexes of two program points.
cmp(a, b) == IF a < b THEN "Less" ELSE IF a = b THEN "Equal" ELSE "Greater"

\* ProgOrder::is_ebb_gap: inst is a terminator (index ebb*10+1) and ebb is
\* the next EBB in the layout.
is_ebb_gap(inst, ebb) ==
    inst % EbbStride = 1 /\ ebb \div EbbStride = (inst \div EbbStride) + 1

\* ProgOrder::inst_ebb
inst_ebb(inst) == inst - (inst % EbbStride)

\* ProgOrder::pp_ebb: an EBB header is its own EBB.
pp_ebb(pp) == IF pp \in Ebbs THEN pp ELSE inst_ebb(pp)

----------------------------------------------------------------------------
\* Vec helpers, with the 0-based indexes of the source.

At(s, n) == s[n + 1]

SetAt(s, n, v) == [s EXCEPT ![n + 1] = v]

\* Vec::remove(n)
Remove(s, n) == SubSeq(s, 1, n) \o SubSeq(s, n + 2, Len(s))

\* Vec::insert(n, v)
Insert(s, n, v) == SubSeq(s, 1, n) \o <<v>> \o SubSeq(s, n + 1, Len(s))

\* slice::binary_search_by over the half-open index range lo..hi, comparing
\* each interval's begin with ebb: Ok(n) on Equal, otherwise Err(insertion
\* index).
RECURSIVE binary_search_by(_, _, _, _)
binary_search_by(s, ebb, lo, hi) ==
    IF lo >= hi
    THEN [ok |-> FALSE, n |-> lo]
    ELSE LET mid == lo + ((hi - lo) \div 2)
             c   == cmp(At(s, mid).begin, ebb)
         IN  IF c = "Equal" THEN [ok |-> TRUE, n |-> mid]
             ELSE IF c = "Less" THEN binary_search_by(s, ebb, mid + 1, hi)
             ELSE binary_search_by(s, ebb, lo, mid)

----------------------------------------------------------------------------
\* Interval and LiveRange.

\* extend_to without the comparison: the end always becomes `to`.
extend_to_always(intv, to) == [intv EXCEPT !.end = to]

\* Interval::extend_to
extend_to(intv, to) ==
    IF cmp(to, intv.end) = "Greater" THEN [intv EXCEPT !.end = to] ELSE intv

\* new that files an instruction's value under the header of its EBB.
new_at_ebb(def) ==
    [def_begin |-> IF def \in Ebbs THEN def ELSE def - (def % EbbStride),
     def_end |-> def, liveins |-> <<>>]

\* LiveRange::new
new(def) == [def_begin |-> def, def_end |-> def, liveins |-> <<>>]

\* find_ebb_interval that only finds an interval beginning at ebb and never
\* looks at the interval before the insertion index.
find_ebb_interval_exact(lr, ebb) ==
    binary_search_by(lr.liveins, ebb, 0, Len(lr.liveins))

\* find_ebb_interval that takes the interval before the insertion index
\* without looking at its end.
find_ebb_interval_any_prev(lr, ebb) ==
    LET r == binary_search_by(lr.liveins, ebb, 0, Len(lr.liveins))
    IN  IF r.ok THEN r
        ELSE IF r.n > 0
             THEN [ok |-> TRUE, n |-> r.n - 1]
             ELSE [ok |-> FALSE, n |-> r.n]

\* LiveRange::find_ebb_interval
find_ebb_interval(lr, ebb) ==
    LET r == binary_search_by(lr.liveins, ebb, 0, Len(lr.liveins))
    IN  IF r.ok THEN r
        ELSE IF r.n > 0 /\ cmp(At(lr.liveins, r.n - 1).end, ebb) = "Greater"
             THEN [ok |-> TRUE, n |-> r.n - 1]
             ELSE [ok |-> FALSE, n |-> r.n]

\* The first check with `ebb` strictly before def_end: a dead EBB argument,
\* whose def_end is the EBB header itself, is missed.
extends_def_before_end(lr, ebb, to) ==
    cmp(ebb, lr.def_end) = "Less" /\ cmp(to, lr.def_begin) # "Less"

\* The first check with `to` strictly after def_begin: a use by the defining
\* instruction is no longer taken for a use in the def interval.
extends_def_strict(lr, ebb, to) ==
    cmp(ebb, lr.def_end) # "Greater" /\ cmp(to, lr.def_begin) = "Greater"

\* The first check without the comparison of `to` with def_begin: every use
\* in an EBB that is not after def_end is taken for a use in the def interval.
extends_def_any_to(lr, ebb, to) == cmp(ebb, lr.def_end) # "Greater"

\* extend_in_ebb, first check: the call extends the def interval.
extends_def(lr, ebb, to) ==
    cmp(ebb, lr.def_end) # "Greater" /\ cmp(to, lr.def_begin) # "Less"

\* The def interval branch without the comparison with def_end.
extend_def_always(lr, ebb, to) ==
    IF to = lr.def_begin
    THEN [lr |-> lr, ret |-> "panic"]
    ELSE [lr |-> [lr EXCEPT !.def_end = to], ret |-> "false"]

\* The def interval branch with the comparison with def_end inverted.
extend_def_inverted(lr, ebb, to) ==
    IF to = lr.def_begin
    THEN [lr |-> lr, ret |-> "panic"]
    ELSE IF cmp(to, lr.def_end) = "Less"
         THEN [lr |-> [lr EXCEPT !.def_end = to], ret |-> "false"]
         ELSE [lr |-> lr, ret |-> "false"]

\* The def interval branch without the assertion.
extend_def_unchecked(lr, ebb, to) ==
    IF cmp(to, lr.def_end) = "Greater"
    THEN [lr |-> [lr EXCEPT !.def_end = to], ret |-> "false"]
    ELSE [lr |-> lr, ret |-> "false"]

\* extend_in_ebb, the def interval branch.
extend_def(lr, ebb, to) ==
    IF to = lr.def_begin
    THEN [lr |-> lr, ret |-> "panic"]
    ELSE IF cmp(to, lr.def_end) = "Greater"
         THEN [lr |-> [lr EXCEPT !.def_end = to], ret |-> "false"]
         ELSE [lr |-> lr, ret |-> "false"]

\* Ok(n) that drops the next interval when coalescing, without extending
\* liveins[n] to the end of the interval it drops.
extend_livein_drop_next(lr, n, to) ==
    LET l1 == SetAt(lr.liveins, n, extend_to(At(lr.liveins, n), to))
        l2 == IF n + 1 < Len(l1) /\ is_ebb_gap(to, At(l1, n + 1).begin)
              THEN Remove(l1, n + 1)
              ELSE l1
    IN  [lr |-> [lr EXCEPT !.liveins = l2], ret |-> "false"]

\* Ok(n) that returns true: the EBB is reported as newly live-in again.
extend_livein_returns_true(lr, n, to) ==
    LET l1 == SetAt(lr.liveins, n, extend_to(At(lr.liveins, n), to))
        l2 == IF n + 1 < Len(l1) /\ is_ebb_gap(to, At(l1, n + 1).begin)
              THEN Remove(SetAt(l1, n, extend_to(At(l1, n), At(l1, n + 1).end)),
                          n + 1)
              ELSE l1
    IN  [lr |-> [lr EXCEPT !.liveins = l2], ret |-> "true"]

\* Ok(n) that never coalesces with the next interval.
extend_livein_no_merge(lr, n, to) ==
    [lr |-> [lr EXCEPT !.liveins =
                SetAt(lr.liveins, n, extend_to(At(lr.liveins, n), to))],
     ret |-> "false"]

\* Ok(n) that coalesces whenever a next interval exists, adjacent or not.
extend_livein_merge_any(lr, n, to) ==
    LET l1 == SetAt(lr.liveins, n, extend_to(At(lr.liveins, n), to))
        l2 == IF n + 1 < Len(l1)
              THEN Remove(SetAt(l1, n, extend_to(At(l1, n), At(l1, n + 1).end)),
                          n + 1)
              ELSE l1
    IN  [lr |-> [lr EXCEPT !.liveins = l2], ret |-> "false"]

\* Ok(n) that reports whether the interval grew instead of returning false.
extend_livein_grew(lr, n, to) ==
    LET l1 == SetAt(lr.liveins, n, extend_to(At(lr.liveins, n), to))
        l2 == IF n + 1 < Len(l1) /\ is_ebb_gap(to, At(l1, n + 1).begin)
              THEN Remove(SetAt(l1, n, extend_to(At(l1, n), At(l1, n + 1).end)),
                          n + 1)
              ELSE l1
    IN  [lr |-> [lr EXCEPT !.liveins = l2],
         ret |-> IF l2 # lr.liveins THEN "true" ELSE "false"]

\* extend_in_ebb, Ok(n): liveins[n] contains ebb.
extend_livein(lr, n, to) ==
    LET l1 == SetAt(lr.liveins, n, extend_to(At(lr.liveins, n), to))
        l2 == IF n + 1 < Len(l1) /\ is_ebb_gap(to, At(l1, n + 1).begin)
              THEN Remove(SetAt(l1, n, extend_to(At(l1, n), At(l1, n + 1).end)),
                          n + 1)
              ELSE l1
    IN  [lr |-> [lr EXCEPT !.liveins = l2], ret |-> "false"]

\* Err(n) with the new interval pushed at the end of the vector instead of
\* inserted at n.
insert_livein_push(lr, n, ebb, to) ==
    LET l == lr.liveins
        coalesce_prev == n >= 1 /\ n - 1 < Len(l)
                         /\ is_ebb_gap(At(l, n - 1).end, ebb)
        coalesce_next == n < Len(l) /\ is_ebb_gap(to, At(l, n).begin)
        l2 == IF coalesce_prev /\ coalesce_next
              THEN Remove(SetAt(l, n - 1,
                                extend_to(At(l, n - 1), At(l, n).end)), n)
              ELSE IF coalesce_prev
              THEN SetAt(l, n - 1, extend_to(At(l, n - 1), to))
              ELSE IF coalesce_next
              THEN SetAt(l, n, [At(l, n) EXCEPT !.begin = ebb])
              ELSE Append(l, [begin |-> ebb, end |-> to])
    IN  [lr |-> [lr EXCEPT !.liveins = l2], ret |-> "true"]

\* Err(n) that extends the predecessor over the successor but keeps the
\* successor entry.
insert_livein_keep_next(lr, n, ebb, to) ==
    LET l == lr.liveins
        coalesce_prev == n >= 1 /\ n - 1 < Len(l)
                         /\ is_ebb_gap(At(l, n - 1).end, ebb)
        coalesce_next == n < Len(l) /\ is_ebb_gap(to, At(l, n).begin)
        l2 == IF coalesce_prev /\ coalesce_next
              THEN SetAt(l, n - 1, extend_to(At(l, n - 1), At(l, n).end))
              ELSE IF coalesce_prev
              THEN SetAt(l, n - 1, extend_to(At(l, n - 1), to))
              ELSE IF coalesce_next
              THEN SetAt(l, n, [At(l, n) EXCEPT !.begin = ebb])
              ELSE Insert(l, n, [begin |-> ebb, end |-> to])
    IN  [lr |-> [lr EXCEPT !.liveins = l2], ret |-> "true"]

\* Err(n) that replaces the successor by the new interval instead of moving
\* its begin.
insert_livein_next_end(lr, n, ebb, to) ==
    LET l == lr.liveins
        coalesce_prev == n >= 1 /\ n - 1 < Len(l)
                         /\ is_ebb_gap(At(l, n - 1).end, ebb)
        coalesce_next == n < Len(l) /\ is_ebb_gap(to, At(l, n).begin)
        l2 == IF coalesce_prev /\ coalesce_next
              THEN Remove(SetAt(l, n - 1,
                                extend_to(At(l, n - 1), At(l, n).end)), n)
              ELSE IF coalesce_prev
              THEN SetAt(l, n - 1, extend_to(At(l, n - 1), to))
              ELSE IF coalesce_next
              THEN SetAt(l, n, [begin |-> ebb, end |-> to])
              ELSE Insert(l, n, [begin |-> ebb, end |-> to])
    IN  [lr |-> [lr EXCEPT !.liveins = l2], ret |-> "true"]

\* Err(n) with the new interval inserted at the front of the vector.
insert_livein_front(lr, n, ebb, to) ==
    LET l == lr.liveins
        coalesce_prev == n >= 1 /\ n - 1 < Len(l)
                         /\ is_ebb_gap(At(l, n - 1).end, ebb)
        coalesce_next == n < Len(l) /\ is_ebb_gap(to, At(l, n).begin)
        l2 == IF coalesce_prev /\ coalesce_next
              THEN Remove(SetAt(l, n - 1,
                                extend_to(At(l, n - 1), At(l, n).end)), n)
              ELSE IF coalesce_prev
              THEN SetAt(l, n - 1, extend_to(At(l, n - 1), to))
              ELSE IF coalesce_next
              THEN SetAt(l, n, [At(l, n) EXCEPT !.begin = ebb])
              ELSE Insert(l, 0, [begin |-> ebb, end |-> to])
    IN  [lr |-> [lr EXCEPT !.liveins = l2], ret |-> "true"]

\* Err(n) that never coalesces with the successor.
insert_livein_no_next(lr, n, ebb, to) ==
    LET l == lr.liveins
        coalesce_prev == n >= 1 /\ n - 1 < Len(l)
                         /\ is_ebb_gap(At(l, n - 1).end, ebb)
        l2 == IF coalesce_prev
              THEN SetAt(l, n - 1, extend_to(At(l, n - 1), to))
              ELSE Insert(l, n, [begin |-> ebb, end |-> to])
    IN  [lr |-> [lr EXCEPT !.liveins = l2], ret |-> "true"]

\* Err(n) that never coalesces with the predecessor.
insert_livein_no_prev(lr, n, ebb, to) ==
    LET l == lr.liveins
        coalesce_next == n < Len(l) /\ is_ebb_gap(to, At(l, n).begin)
        l2 == IF coalesce_next
              THEN SetAt(l, n, [At(l, n) EXCEPT !.begin = ebb])
              ELSE Insert(l, n, [begin |-> ebb, end |-> to])
    IN  [lr |-> [lr EXCEPT !.liveins = l2], ret |-> "true"]

\* extend_in_ebb, Err(n): insert a live-in interval at n or coalesce.
insert_livein(lr, n, ebb, to) ==
    LET l == lr.liveins
        coalesce_prev == n >= 1 /\ n - 1 < Len(l)
                         /\ is_ebb_gap(At(l, n - 1).end, ebb)
        coalesce_next == n < Len(l) /\ is_ebb_gap(to, At(l, n).begin)
        l2 == IF coalesce_prev /\ coalesce_next
              THEN Remove(SetAt(l, n - 1,
                                extend_to(At(l, n - 1), At(l, n).end)), n)
              ELSE IF coalesce_prev
              THEN SetAt(l, n - 1, extend_to(At(l, n - 1), to))
              ELSE IF coalesce_next
              THEN SetAt(l, n, [At(l, n) EXCEPT !.begin = ebb])
              ELSE Insert(l, n, [begin |-> ebb, end |-> to])
    IN  [lr |-> [lr EXCEPT !.liveins = l2], ret |-> "true"]

\* LiveRange::extend_in_ebb: the range after the call and what the call
\* returned ("panic" for the failed assertion).
extend_in_ebb(lr, ebb, to) ==
    IF extends_def(lr, ebb, to)
    THEN extend_def(lr, ebb, to)
    ELSE LET f == find_ebb_interval(lr, ebb)
         IN  IF f.ok THEN extend_livein(lr, f.n, to)
             ELSE insert_livein(lr, f.n, ebb, to)

\* LiveRange::def, the program point where the value is defined.
def_point(lr) == lr.def_begin

\* LiveRange::is_dead
is_dead(lr) == lr.def_begin = lr.def_end

\* LiveRange::is_local
is_local(lr) == lr.liveins = <<>>

\* move_def_locally that restarts the def interval at the new point.
move_def_locally_reset(lr, def) == [lr EXCEPT !.def_begin = def, !.def_end = def]

\* move_def_locally that refuses a point outside the defining EBB or beyond
\* def_end.
move_def_locally_checked(lr, def) ==
    IF (IF def \in Ebbs THEN def ELSE def - (def % EbbStride))
          = (IF lr.def_begin \in Ebbs THEN lr.def_begin
             ELSE lr.def_begin - (lr.def_begin % EbbStride))
       /\ cmp(def, lr.def_end) # "Greater"
    THEN [lr EXCEPT !.def_begin = def]
    ELSE lr

\* LiveRange::move_def_locally
move_def_locally(lr, def) == [lr EXCEPT !.def_begin = def]

\* Option::None of livein_local_end; no instruction has index 0.
None == 0

\* LiveRange::livein_local_end, None or the end instruction.
livein_local_end(lr, ebb) ==
    LET f == find_ebb_interval(lr, ebb)
    IN  IF f.ok THEN At(lr.liveins, f.n).end ELSE None

\* overlaps_def with the end of the live-in interval counted as overlapping.
overlaps_def_livein_closed(lr, def, ebb) ==
    \/ cmp(def, lr.def_begin) # "Less" /\ cmp(def, lr.def_end) = "Less"
    \/ \E inst \in {livein_local_end(lr, ebb)} :
          inst # None /\ cmp(def, inst) # "Greater"

\* overlaps_def with the end of the def interval counted as overlapping.
overlaps_def_local_closed(lr, def, ebb) ==
    \/ cmp(def, lr.def_begin) # "Less" /\ cmp(def, lr.def_end) # "Greater"
    \/ \E inst \in {livein_local_end(lr, ebb)} :
          inst # None /\ cmp(def, inst) = "Less"

\* overlaps_def that only looks at the def interval.
overlaps_def_local_only(lr, def, ebb) ==
    cmp(def, lr.def_begin) # "Less" /\ cmp(def, lr.def_end) = "Less"

\* LiveRange::overlaps_def: the local range first, then the live-in range
\* of ebb.
overlaps_def(lr, def, ebb) ==
    \/ cmp(def, lr.def_begin) # "Less" /\ cmp(def, lr.def_end) = "Less"
    \/ \E inst \in {livein_local_end(lr, ebb)} :
          inst # None /\ cmp(def, inst) = "Less"

\* reaches_use that stops before the end of the live-in interval.
reaches_use_livein_open(lr, user, ebb) ==
    \/ cmp(user, lr.def_begin) = "Greater" /\ cmp(user, lr.def_end) # "Greater"
    \/ \E inst \in {livein_local_end(lr, ebb)} :
          inst # None /\ cmp(user, inst) = "Less"

\* LiveRange::reaches_use
reaches_use(lr, user, ebb) ==
    \/ cmp(user, lr.def_begin) = "Greater" /\ cmp(user, lr.def_end) # "Greater"
    \/ \E inst \in {livein_local_end(lr, ebb)} :
          inst # None /\ cmp(user, inst) # "Greater"

\* LiveRange::def_local_end
def_local_end(lr) == lr.def_end

\* killed_at that only looks at the def interval.
killed_at_local_only(lr, user, ebb) == def_local_end(lr) = user

\* LiveRange::killed_at; Some(user) is the instruction itself, never None.
killed_at(lr, user, ebb) ==
    def_local_end(lr) = user \/ livein_local_end(lr, ebb) = user

----------------------------------------------------------------------------
\* What the documentation asks of the caller.

\* extend_in_ebb: `to` belongs to `ebb` and never precedes def_begin in the
\* defining EBB.
ValidUse(lr, ebb, to) ==
    /\ inst_ebb(to) = ebb
    /\ ebb = pp_ebb(lr.def_begin) => cmp(to, lr.def_begin) # "Less"

\* move_def_locally: stay in the defining EBB, not beyond def_local_end().
ValidMove(lr, def) ==
    /\ pp_ebb(def) = pp_ebb(lr.def_begin)
    /\ cmp(def, lr.def_end) # "Greater"

----------------------------------------------------------------------------
\* The state machine.

Self == [def_begin |-> def_begin, def_end |-> def_end, liveins |-> liveins]

\* How a call stands to the documentation: "documented", or the precondition
\* it breaks.
UseKind(lr, ebb, to) ==
    IF inst_ebb(to) # ebb THEN "outside_ebb"
    ELSE IF ~ValidUse(lr, ebb, to) THEN "before_def"
    ELSE "documented"

MoveKind(lr, def) == IF ValidMove(lr, def) THEN "documented" ELSE "outside"

Init ==
    \E def \in Points :
        /\ def_begin = new(def).def_begin
        /\ def_end = new(def).def_end
        /\ liveins = new(def).liveins
        /\ last = [op |-> "new", ret |-> "none", kind |-> "documented",
                   from |-> def]
        /\ passed = {} /\ trued = {}
        /\ worklist = {} /\ preds = {}

\* A failed assertion aborts the compilation of the function, and nothing is
\* explored after a call that broke a precondition.
Halted == last.ret = "panic" \/ last.kind # "documented"

\* The call is evaluated once, as the only element of a set.
Call(ebb, to) ==
    \E r \in {extend_in_ebb(Self, ebb, to)} :
        /\ def_begin' = r.lr.def_begin
        /\ def_end' = r.lr.def_end
        /\ liveins' = r.lr.liveins
        /\ last' = [op |-> "extend", ret |-> r.ret,
                    kind |-> UseKind(Self, ebb, to), from |-> def_begin]
        /\ UNCHANGED <<passed, trued, worklist, preds>>

\* The same call with its EBB and its result entered in the history.
CallRecorded(ebb, to) ==
    \E r \in {extend_in_ebb(Self, ebb, to)} :
        /\ def_begin' = r.lr.def_begin
        /\ def_end' = r.lr.def_end
        /\ liveins' = r.lr.liveins
        /\ last' = [op |-> "extend", ret |-> r.ret,
                    kind |-> UseKind(Self, ebb, to), from |-> def_begin]
        /\ passed' = passed \cup {ebb}
        /\ trued' = IF r.ret = "true" THEN trued \cup {ebb} ELSE trued
        /\ UNCHANGED <<worklist, preds>>

Move(def) ==
    \E r \in {move_def_locally(Self, def)} :
        /\ def_begin' = r.def_begin
        /\ def_end' = r.def_end
        /\ liveins' = r.liveins
        /\ last' = [op |-> "move", ret |-> "none",
                    kind |-> MoveKind(Self, def), from |-> def_begin]
        /\ UNCHANGED <<passed, trued, worklist, preds>>

\* The calls <<ebb, to>> with `to` an instruction of `ebb`.
UsesInEbb == UNION {{<<ebb, to>> : to \in InstsOf(ebb)} : ebb \in Ebbs}

\* The calls of extend_in_ebb and of move_def_locally that the documentation
\* allows in a state.
ValidUses(lr) ==
    {c \in UsesInEbb : ValidUse(lr, c[1], c[2])}

ValidMoves(lr) == {def \in Points : ValidMove(lr, def)}

\* extend_in_ebb called as documented.
ExtendInEbb ==
    /\ ~Halted
    /\ \E c \in ValidUses(Self) : Call(c[1], c[2])

\* move_def_locally called as documented.
MoveDefLocally ==
    /\ ~Halted
    /\ \E def \in ValidMoves(Self) : Move(def)

\* extend_in_ebb called against its documentation.
ExtendMisplaced ==
    /\ ~Halted
    /\ \E c \in (Ebbs \X Insts) \ ValidUses(Self) : Call(c[1], c[2])

\* move_def_locally called against its documentation.
MoveDefAnywhere ==
    /\ ~Halted
    /\ \E def \in Points \ ValidMoves(Self) : Move(def)

Next == ExtendInEbb \/ MoveDefLocally

Spec == Init /\ [][Next]_vars

\* A range that is only extended: extend_in_ebb called as documented on a
\* new range, the def never moved.
NextExtend == ExtendInEbb

SpecExtend == Init /\ [][NextExtend]_vars

\* extend_in_ebb called as documented, with the history kept.
ExtendInEbbRecorded ==
    /\ ~Halted
    /\ \E c \in ValidUses(Self) : CallRecorded(c[1], c[2])

\* A range that is only extended, with the history of its calls.
NextHist == ExtendInEbbRecorded

SpecHist == Init /\ [][NextHist]_vars

----------------------------------------------------------------------------
\* The liveness walk that drives extend_in_ebb: a worklist of <<ebb, to>>
\* items over the CFG predecessors.

\* The fall-through edges of the layout: from the terminator of every EBB
\* to the next EBB.
FallThrough ==
    {e \in Insts \X Ebbs : is_ebb_gap(e[1], e[2])}

\* The CFGs of the function: the fall-through edges and at most one branch,
\* from any instruction to any EBB, backwards (a loop) or forwards. The
\* value is defined before it is used, so no edge leaves the defining EBB
\* at def or before it.
Cfgs(def) ==
    {{e \in FallThrough \cup br :
         ~(inst_ebb(e[1]) = pp_ebb(def) /\ cmp(e[1], def) # "Greater")} :
        br \in {{}} \cup {{e} : e \in Insts \X Ebbs}}

\* The items of the CFG predecessors of an EBB: each predecessor with its
\* branch instruction as `to`.
PredItems(ebb) == {<<inst_ebb(e[1]), e[1]>> : e \in {x \in preds : x[2] = ebb}}

\* The walk starts from one use of a new value.
InitWalk ==
    \E def \in Points :
        /\ def_begin = new(def).def_begin
        /\ def_end = new(def).def_end
        /\ liveins = new(def).liveins
        /\ last = [op |-> "new", ret |-> "none", kind |-> "documented",
                   from |-> def]
        /\ passed = {} /\ trued = {}
        /\ preds \in Cfgs(def)
        /\ \E use \in {c \in ValidUses(new(def)) : c[2] # def} : worklist = {use}

\* One step of the walk: take a pending item, call extend_in_ebb, and enqueue
\* the predecessors of the EBB only when the call returned true.
WalkStep ==
    /\ ~Halted
    /\ \E item \in worklist :
          \E r \in {extend_in_ebb(Self, item[1], item[2])} :
              /\ def_begin' = r.lr.def_begin
              /\ def_end' = r.lr.def_end
              /\ liveins' = r.lr.liveins
              /\ last' = [op |-> "extend", ret |-> r.ret,
                          kind |-> UseKind(Self, item[1], item[2]),
                          from |-> def_begin]
              /\ passed' = passed \cup {item[1]}
              /\ trued' = IF r.ret = "true" THEN trued \cup {item[1]}
                          ELSE trued
              /\ worklist' = (worklist \ {item}) \cup
                             (IF r.ret = "true" THEN PredItems(item[1])
                              ELSE {})
              /\ UNCHANGED preds

NextWalk == WalkStep

\* The walk is a loop that runs while the worklist is not empty: a step
\* that can be taken is taken.
SpecWalk == InitWalk /\ [][NextWalk]_vars /\ WF_vars(NextWalk)

NextAny == ExtendInEbb \/ MoveDefLocally \/ ExtendMisplaced \/ MoveDefAnywhere

SpecAny == Init /\ [][NextAny]_vars

----------------------------------------------------------------------------
\* Vocabulary of the properties.

\* The EBB that defines the value.
DefEbb(lr) == pp_ebb(lr.def_begin)

\* The program points a range covers: its def interval and its live-in
\* intervals, end points included. ProgOrder::cmp compares indexes, so the
\* points from a to b are those with an index in a..b.
Covered(lr) ==
    Points \cap ((lr.def_begin..lr.def_end) \cup
                 UNION {lr.liveins[i].begin..lr.liveins[i].end :
                           i \in 1..Len(lr.liveins)})

\* The live-in intervals of a range that cover an EBB: those that begin at
\* the EBB header or before it and end after it.
CoveringLiveins(lr, ebb) ==
    {i \in 1..Len(lr.liveins) :
        /\ cmp(lr.liveins[i].begin, ebb) # "Greater"
        /\ cmp(lr.liveins[i].end, ebb) = "Greater"}

\* A program point lies in the half-open def interval [def_begin, def_end).
InDefInterval(lr, p) ==
    cmp(p, lr.def_begin) # "Less" /\ cmp(p, lr.def_end) = "Less"

\* The number of live-in intervals that begin before an EBB: the new
\* interval of the EBB belongs right after them, between the interval with
\* this number (the predecessor) and the next one (the successor).
InsertionPoint(lr, ebb) ==
    Cardinality({i \in 1..Len(lr.liveins) :
                    cmp(lr.liveins[i].begin, ebb) = "Less"})

\* No live-in interval covers the EBB of a call and the EBB is not the
\* defining one.
Uncovered(lr, ebb) ==
    ebb # DefEbb(lr) /\ CoveringLiveins(lr, ebb) = {}

\* The EBB is fall-through adjacent to the predecessor interval: the
\* interval ends at the terminator right before the EBB.
AdjacentPrev(lr, ebb) ==
    /\ InsertionPoint(lr, ebb) >= 1
    /\ is_ebb_gap(lr.liveins[InsertionPoint(lr, ebb)].end, ebb)

\* The EBB is fall-through adjacent to the successor interval: `to` is the
\* terminator right before the EBB where that interval begins.
AdjacentNext(lr, ebb, to) ==
    /\ InsertionPoint(lr, ebb) < Len(lr.liveins)
    /\ is_ebb_gap(to, lr.liveins[InsertionPoint(lr, ebb) + 1].begin)

\* The later of two program points.
Later(a, b) == IF cmp(a, b) = "Greater" THEN a ELSE b

\* The documented calls that return, and among them those whose `to` does
\* not come after the terminator of its EBB unless the EBB is the defining
\* one: the terminator is the first instruction in the order of the tests.
ReturningUses(lr) == {c \in ValidUses(lr) : c[2] # lr.def_begin}

UsesUpToTerminator(lr) ==
    {c \in ReturningUses(lr) : c[1] = DefEbb(lr) \/ c[2] = c[1] + 1}

\* Every live-in interval of a range ends at the terminator of an EBB, as
\* after calls of UsesUpToTerminator only.
EndsAtTerminators(lr) ==
    \A i \in 1..Len(lr.liveins) :
        lr.liveins[i].end = pp_ebb(lr.liveins[i].end) + 1

\* Two calls applied to a range one after the other.
Both(lr, c1, c2) ==
    extend_in_ebb(extend_in_ebb(lr, c1[1], c1[2]).lr, c2[1], c2[2]).lr

\* The outcome of a documented call c = <<ebb, to>> in the current state.
After(c) == extend_in_ebb(Self, c[1], c[2])

Returned(r) == r.ret \in {"true", "false"}

----------------------------------------------------------------------------
\* C1: after any sequence of documented extend_in_ebb calls the live-in
\* intervals are sorted and pairwise disjoint: for all i < j, liveins[i].end
\* is strictly before liveins[j].begin.
C1_LiveinsSortedDisjoint ==
    \A i, j \in 1..Len(liveins) :
        i < j => cmp(liveins[i].end, liveins[j].begin) = "Less"

\* Two separate live-in intervals exist, the last one just created.
C1_Witness ==
    /\ last.op = "extend" /\ last.ret = "true"
    /\ Len(liveins) >= 2

\* C2: no live-in interval overlaps the defining EBB: every interval ends
\* before def_begin or begins after def_end, and livein_local_end of the
\* defining EBB is None.
C2_NoLiveinInDefEbb ==
    /\ \A i \in 1..Len(liveins) :
          \/ cmp(liveins[i].end, def_begin) = "Less"
          \/ cmp(liveins[i].begin, def_end) = "Greater"
    /\ livein_local_end(Self, DefEbb(Self)) = None

\* A used value with live-in intervals on both sides of its defining EBB.
C2_Witness ==
    /\ last.op = "extend"
    /\ ~is_dead(Self)
    /\ \E i, j \in 1..Len(liveins) :
          /\ cmp(liveins[i].end, def_begin) = "Less"
          /\ cmp(liveins[j].begin, def_end) = "Greater"

\* C3: def_begin and def_end belong to the same EBB, def_begin <= def_end,
\* and no documented call moves def_end backwards.
C3_DefIntervalForward ==
    /\ pp_ebb(def_begin) = pp_ebb(def_end)
    /\ cmp(def_begin, def_end) # "Greater"
    /\ \A c \in ValidUses(Self) : cmp(After(c).lr.def_end, def_end) # "Less"
    /\ \A def \in ValidMoves(Self) :
          move_def_locally(Self, def).def_end = def_end

\* The def interval was extended and a use before its end is still allowed.
C3_Witness ==
    /\ last.op = "extend" /\ last.ret = "false"
    /\ \E c \in ValidUses(Self) :
          /\ c[1] = DefEbb(Self)
          /\ cmp(c[2], def_begin) = "Greater"
          /\ cmp(c[2], def_end) = "Less"

\* C4: a documented call that returns, returns true exactly when its EBB is
\* not the defining EBB and no live-in interval covered the EBB before the
\* call, false otherwise; after returning true the EBB is covered.
C4_TrueIffNewLivein ==
    \A c \in ValidUses(Self) :
        \A r \in {After(c)} :
            r.ret # "panic" =>
              /\ Returned(r)
              /\ r.ret = "true" <=>
                    /\ c[1] # DefEbb(Self)
                    /\ livein_local_end(Self, c[1]) = None
              /\ r.ret = "true" => livein_local_end(r.lr, c[1]) # None

\* A call returned true, and in the state it left, one EBB is covered by an
\* interval that begins at an earlier EBB while another EBB is still new.
C4_Witness ==
    /\ last.op = "extend" /\ last.ret = "true"
    /\ \E i \in 1..Len(liveins) : \E ebb \in Ebbs :
          /\ cmp(liveins[i].begin, ebb) = "Less"
          /\ livein_local_end(Self, ebb) = liveins[i].end
    /\ \E c \in ValidUses(Self) : After(c).ret = "true"

\* C5: repeating a documented call right after it returned gives false and
\* leaves def_begin, def_end and liveins as the first call left them.
C5_Idempotent ==
    \A c \in ValidUses(Self) :
        \A r \in {After(c)} :
            r.ret # "panic" =>
              extend_in_ebb(r.lr, c[1], c[2]) = [lr |-> r.lr, ret |-> "false"]

\* A call that changes the range is possible after earlier calls, and so is
\* one that coalesces two intervals.
C5_Witness ==
    /\ last.op = "extend"
    /\ \E c \in ValidUses(Self) :
          /\ After(c).ret = "false"
          /\ Len(After(c).lr.liveins) < Len(liveins)
    /\ \E c \in ValidUses(Self) : After(c).ret = "true"

\* C6: a documented extend_in_ebb call never uncovers a program point, and
\* Interval::extend_to never moves the end of an interval backwards.
C6_ExtendMonotone ==
    /\ \A c \in ValidUses(Self) : Covered(Self) \subseteq Covered(After(c).lr)
    /\ \A i \in 1..Len(liveins) : \A to \in Insts :
          cmp(extend_to(liveins[i], to).end, liveins[i].end) # "Less"

\* An interval ends after the terminator of its EBB, so some documented
\* calls reach it with an earlier instruction, and others still grow it.
C6_Witness ==
    /\ last.op = "extend"
    /\ \E i \in 1..Len(liveins) : \E to \in Insts :
          /\ cmp(to, liveins[i].begin) = "Greater"
          /\ cmp(to, liveins[i].end) = "Less"
    /\ \E c \in ValidUses(Self) : Covered(After(c).lr) # Covered(Self)

\* C7 as stated: no documented operation, extend_in_ebb or move_def_locally,
\* uncovers a program point, and none takes a range that is not dead back to
\* dead.
C7_NothingShrinks ==
    /\ \A c \in ValidUses(Self) : \A r \in {After(c)} :
          /\ Covered(Self) \subseteq Covered(r.lr)
          /\ ~is_dead(Self) => ~is_dead(r.lr)
    /\ \A def \in ValidMoves(Self) :
          /\ Covered(Self) \subseteq Covered(move_def_locally(Self, def))
          /\ ~is_dead(Self) => ~is_dead(move_def_locally(Self, def))

\* C7 amended: extend_in_ebb never uncovers a point and never takes a range
\* back to dead; move_def_locally leaves def_end and liveins alone, uncovers
\* only points of the def interval before the new def_begin (none when the
\* def moves earlier), and makes the range dead exactly when it moves the def
\* to def_end.
C7_OnlyMoveShrinks ==
    /\ \A c \in ValidUses(Self) : \A r \in {After(c)} :
          /\ Covered(Self) \subseteq Covered(r.lr)
          /\ ~is_dead(Self) => ~is_dead(r.lr)
    /\ \A def \in ValidMoves(Self) :
          \A m \in {move_def_locally(Self, def)} :
              /\ m.def_end = def_end
              /\ m.liveins = liveins
              /\ Covered(Self) \ Covered(m) =
                    {p \in Points : cmp(p, def_begin) # "Less"
                                    /\ cmp(p, def) = "Less"}
              /\ is_dead(m) <=> def = def_end

\* A used value with a live-in interval whose def has just been moved onto
\* the end of its def interval.
C7_Witness ==
    /\ last.op = "move"
    /\ cmp(last.from, def_begin) = "Less"
    /\ is_dead(Self) /\ ~is_local(Self)

C9_UseAtDefPanics ==
    /\ \A ebb \in Ebbs : \A to \in InstsOf(ebb) :
          to = def_begin =>
              extend_in_ebb(Self, ebb, to) = [lr |-> Self, ret |-> "panic"]
    /\ \A c \in ValidUses(Self) : After(c).ret = "panic" => c[2] = def_begin
    /\ last.ret = "panic" => last.op = "extend" /\ def_begin \in Insts

\* The assertion has failed on a range that already had a longer def
\* interval and a live-in interval.
C9_Witness ==
    /\ last.ret = "panic"
    /\ ~is_dead(Self) /\ ~is_local(Self)

\* C10 as stated: a call with `to` not located in `ebb` ends in an assertion
\* failure.
C10_MisplacedPanics ==
    (last.op = "extend" /\ last.kind = "outside_ebb") => last.ret = "panic"

\* C10 amended: extend_in_ebb does not check that `to` is located in `ebb`.
\* Such a call fails the assertion, leaving the range as it was, only when
\* `ebb` is not after def_end and `to` is def_begin; every other such call
\* returns true or false like a documented one.
C10_MisplacedUnchecked ==
    ~Halted =>
        \A ebb \in Ebbs : \A to \in Insts :
            inst_ebb(to) # ebb =>
                \A r \in {extend_in_ebb(Self, ebb, to)} :
                    /\ r.ret = "panic" <=>
                          /\ cmp(ebb, def_end) # "Greater"
                          /\ to = def_begin
                    /\ r.ret = "panic" => r.lr = Self
                    /\ r.ret # "panic" => Returned(r)

\* A call with `to` outside `ebb` returned true and left a live-in interval
\* that ends outside the EBBs it spans.
C10_Witness ==
    /\ last.op = "extend" /\ last.kind = "outside_ebb" /\ last.ret = "true"
    /\ \E i \in 1..Len(liveins) :
          \/ cmp(liveins[i].end, liveins[i].begin) = "Less"
          \/ cmp(inst_ebb(liveins[i].end), liveins[i].begin) = "Greater"

\* C11 as stated: a call for the defining EBB with `to` strictly before
\* def_begin ends in an assertion failure and leaves no live-in interval in
\* the defining EBB.
C11_BeforeDefPanics ==
    (last.op = "extend" /\ last.kind = "before_def") =>
        /\ last.ret = "panic"
        /\ livein_local_end(Self, DefEbb(Self)) = None

\* C11 amended: extend_in_ebb cannot tell that `to` precedes def_begin in the
\* defining EBB. On a range built by documented calls such a call fails no
\* assertion: it returns true, leaves def_begin and def_end alone, and leaves
\* a live-in interval that covers the defining EBB and ends at `to` or later.
C11_BeforeDefInsertsLivein ==
    ~Halted =>
        \A to \in InstsOf(DefEbb(Self)) :
            cmp(to, def_begin) = "Less" =>
                \A r \in {extend_in_ebb(Self, DefEbb(Self), to)} :
                    /\ r.ret = "true"
                    /\ r.lr.def_begin = def_begin
                    /\ r.lr.def_end = def_end
                    /\ livein_local_end(r.lr, DefEbb(Self)) # None
                    /\ cmp(livein_local_end(r.lr, DefEbb(Self)), to) # "Less"

\* A call with `to` before def_begin returned true and the defining EBB is
\* now covered by a live-in interval.
C11_Witness ==
    /\ last.op = "extend" /\ last.kind = "before_def" /\ last.ret = "true"
    /\ livein_local_end(Self, DefEbb(Self)) # None

\* C12 as stated: overlaps_def(point, ebb), for a point of ebb, is true
\* exactly when point is in
\* [def_begin, def_end), or a live-in interval covers ebb and point is at or
\* before the end of that interval.
C12_OverlapsUpToLiveinEnd ==
    \A ebb \in Ebbs : \A p \in PointsOf(ebb) :
        overlaps_def(Self, p, ebb) <=>
            \/ InDefInterval(Self, p)
            \/ \E i \in CoveringLiveins(Self, ebb) :
                  cmp(p, liveins[i].end) # "Greater"

\* C12 amended: overlaps_def(point, ebb), for a point of ebb, is true
\* exactly when point is in
\* [def_begin, def_end), or a live-in interval covers ebb and point is
\* strictly before the end of that interval; at the end itself it is false
\* unless the def interval contains the point.
C12_OverlapsBeforeLiveinEnd ==
    \A ebb \in Ebbs : \A p \in PointsOf(ebb) :
        overlaps_def(Self, p, ebb) <=>
            \/ InDefInterval(Self, p)
            \/ \E i \in CoveringLiveins(Self, ebb) :
                  cmp(p, liveins[i].end) = "Less"

\* A used value is live-in to an EBB: a point of the EBB before the end of
\* the live-in interval overlaps, the end of the interval does not.
C12_Witness ==
    /\ last.op = "extend" /\ ~is_dead(Self)
    /\ \E ebb \in Ebbs : \E i \in CoveringLiveins(Self, ebb) :
          /\ \E p \in InstsOf(ebb) :
                ~InDefInterval(Self, p) /\ overlaps_def(Self, p, ebb)
          /\ ~overlaps_def(Self, liveins[i].end, ebb)

\* C13: overlaps_def(p, ebb), with ebb the EBB of p, is false where the range
\* ends in that EBB (p is def_end, or p is the end of the live-in interval
\* covering ebb), and true when p is def_begin of a range that is not dead or
\* p lies strictly between the begin and the end of one of its intervals.
C13_EndPointsDoNotInterfere ==
    /\ ~overlaps_def(Self, def_end, pp_ebb(def_end))
    /\ \A ebb \in Ebbs :
          livein_local_end(Self, ebb) # None =>
              ~overlaps_def(Self, livein_local_end(Self, ebb), ebb)
    /\ ~is_dead(Self) => overlaps_def(Self, def_begin, pp_ebb(def_begin))
    /\ \A p \in Points :
          (\/ cmp(p, def_begin) = "Greater" /\ cmp(p, def_end) = "Less"
           \/ \E i \in 1..Len(liveins) :
                 /\ cmp(p, liveins[i].begin) = "Greater"
                 /\ cmp(p, liveins[i].end) = "Less")
            => overlaps_def(Self, p, pp_ebb(p))

\* The def interval and a live-in interval both have a point strictly
\* inside, and the live-in interval spans more than one EBB.
C13_Witness ==
    /\ last.op = "extend"
    /\ \E p \in Points : cmp(p, def_begin) = "Greater" /\ cmp(p, def_end) = "Less"
    /\ \E i \in 1..Len(liveins) :
          /\ pp_ebb(liveins[i].end) # liveins[i].begin
          /\ \E p \in Insts :
                cmp(p, liveins[i].begin) = "Greater"
                    /\ cmp(p, liveins[i].end) = "Less"

\* C14: reaches_use(user, ebb), for an instruction of ebb, is true exactly
\* when user is strictly after
\* def_begin and at or before def_end, or a live-in interval covers ebb and
\* ends at user or later.
C14_ReachesUse ==
    \A ebb \in Ebbs : \A user \in InstsOf(ebb) :
        reaches_use(Self, user, ebb) <=>
            \/ cmp(user, def_begin) = "Greater"
                  /\ cmp(user, def_end) # "Greater"
            \/ \E i \in CoveringLiveins(Self, ebb) :
                  cmp(liveins[i].end, user) # "Less"

\* A used value is live-in to an EBB whose interval ends at its last
\* instruction but one: the use at the end is reached, the one after is not,
\* and the use that ends the def interval is reached.
C14_Witness ==
    /\ last.op = "extend" /\ ~is_dead(Self)
    /\ reaches_use(Self, def_end, pp_ebb(def_end))
    /\ \E ebb \in Ebbs : \E i \in CoveringLiveins(Self, ebb) :
          /\ reaches_use(Self, liveins[i].end, ebb)
          /\ \E user \in InstsOf(ebb) : ~reaches_use(Self, user, ebb)

\* C15: killed_at(user, ebb), for an instruction of ebb, is true exactly
\* when user is def_end or the end
\* of the live-in interval covering ebb; when the def interval ends at an
\* instruction, killed_at is true there and false at every earlier
\* instruction of the defining EBB.
C15_KilledAt ==
    /\ \A ebb \in Ebbs : \A user \in InstsOf(ebb) :
          killed_at(Self, user, ebb) <=>
              \/ user = def_end
              \/ \E i \in CoveringLiveins(Self, ebb) : user = liveins[i].end
    /\ def_end \in Insts =>
          /\ killed_at(Self, def_end, pp_ebb(def_end))
          /\ \A user \in InstsOf(pp_ebb(def_end)) :
                cmp(user, def_end) = "Less"
                    => ~killed_at(Self, user, pp_ebb(def_end))

\* The def interval ends at an instruction with an earlier instruction in
\* its EBB, and the value is killed at the end of a live-in interval too.
C15_Witness ==
    /\ last.op = "extend" /\ ~is_dead(Self)
    /\ \E user \in InstsOf(pp_ebb(def_end)) : cmp(user, def_end) = "Less"
    /\ \E ebb \in Ebbs : \E user \in InstsOf(ebb) :
          user # def_end /\ killed_at(Self, user, ebb)

\* C16: livein_local_end(ebb) = Some(e) implies that e is at or after every
\* `to` passed to extend_in_ebb with that EBB, and that e is after the EBB
\* header. Stated call by call: a documented call for an EBB other than the
\* defining one leaves livein_local_end(ebb) at `to` or later, and no
\* documented call takes livein_local_end of any EBB back to None or to an
\* earlier instruction (it leaves liveins as it was, or every end where it
\* was or later), and a move leaves liveins alone, so the bound of every
\* earlier call is kept.
C16_LiveinLocalEndBounds ==
    /\ \A ebb \in Ebbs :
          \A e \in {livein_local_end(Self, ebb)} :
              e # None => cmp(e, ebb) = "Greater"
    /\ \A c \in ValidUses(Self) :
          \A r \in {After(c)} :
              /\ (Returned(r) /\ c[1] # DefEbb(Self)) =>
                    \A e \in {livein_local_end(r.lr, c[1])} :
                        e # None /\ cmp(e, c[2]) # "Less"
              /\ \/ r.lr.liveins = liveins
                 \/ \A ebb \in Ebbs :
                       \A e \in {livein_local_end(Self, ebb)} :
                           e # None =>
                               \A e2 \in {livein_local_end(r.lr, ebb)} :
                                   e2 # None /\ cmp(e2, e) # "Less"
    /\ \A def \in ValidMoves(Self) :
          move_def_locally(Self, def).liveins = liveins

\* Intervals were coalesced: livein_local_end of an EBB is an instruction of
\* a later EBB, and a documented call for the earlier EBB with an
\* instruction after its terminator leaves that end where it is.
C16_Witness ==
    /\ last.op = "extend"
    /\ \E ebb \in Ebbs :
          /\ livein_local_end(Self, ebb) # None
          /\ cmp(inst_ebb(livein_local_end(Self, ebb)), ebb) = "Greater"
          /\ \E c \in ValidUses(Self) :
                /\ c[1] = ebb /\ ~is_ebb_gap(c[2], ebb + EbbStride)
                /\ After(c).lr.liveins = liveins

\* C17: a documented call for an uncovered EBB that is fall-through adjacent
\* to both the predecessor and the successor interval replaces the two by
\* one interval from the predecessor's begin to the successor's end, leaves
\* the other intervals and the def interval alone, shortens liveins by one
\* and returns true.
C17_CoalesceBoth ==
    \A c \in ValidUses(Self) :
        (Uncovered(Self, c[1]) /\ AdjacentPrev(Self, c[1])
            /\ AdjacentNext(Self, c[1], c[2])) =>
          \A r \in {After(c)} : \A k \in {InsertionPoint(Self, c[1])} :
              /\ r.ret = "true"
              /\ Len(r.lr.liveins) = Len(liveins) - 1
              /\ r.lr.liveins =
                    SubSeq(liveins, 1, k - 1)
                    \o <<[begin |-> liveins[k].begin,
                          end |-> liveins[k + 1].end]>>
                    \o SubSeq(liveins, k + 2, Len(liveins))
              /\ r.lr.def_begin = def_begin /\ r.lr.def_end = def_end

\* A used value has live-in intervals on both sides of an uncovered EBB,
\* both fall-through adjacent to it, and the call for that EBB with its
\* terminator merges them.
C17_Witness ==
    /\ last.op = "extend" /\ ~is_dead(Self)
    /\ \E c \in ValidUses(Self) :
          /\ Uncovered(Self, c[1])
          /\ AdjacentPrev(Self, c[1]) /\ AdjacentNext(Self, c[1], c[2])
          /\ After(c).ret = "true"
          /\ Len(After(c).lr.liveins) = Len(liveins) - 1

\* C18: a documented call for an uncovered EBB that is fall-through adjacent
\* to exactly one neighbouring interval returns true and leaves the length
\* of liveins unchanged: adjacent to the predecessor only, the predecessor's
\* end becomes `to` and nothing else changes; adjacent to the successor
\* only, the successor's begin becomes the EBB and nothing else changes.
C18_CoalesceOne ==
    \A c \in ValidUses(Self) :
        Uncovered(Self, c[1]) =>
          \A r \in {After(c)} : \A k \in {InsertionPoint(Self, c[1])} :
              /\ (AdjacentPrev(Self, c[1]) /\ ~AdjacentNext(Self, c[1], c[2]))
                    => /\ r.ret = "true"
                       /\ r.lr.liveins = [liveins EXCEPT ![k].end = c[2]]
                       /\ r.lr.def_begin = def_begin
                       /\ r.lr.def_end = def_end
              /\ (~AdjacentPrev(Self, c[1]) /\ AdjacentNext(Self, c[1], c[2]))
                    => /\ r.ret = "true"
                       /\ r.lr.liveins = [liveins EXCEPT ![k + 1].begin = c[1]]
                       /\ r.lr.def_begin = def_begin
                       /\ r.lr.def_end = def_end

\* With three intervals, one uncovered EBB can be joined to its predecessor
\* only and another to its successor only.
C18_Witness ==
    /\ last.op = "extend" /\ last.ret = "true"
    /\ \E c \in ValidUses(Self) :
          /\ Uncovered(Self, c[1])
          /\ AdjacentPrev(Self, c[1]) /\ ~AdjacentNext(Self, c[1], c[2])
    /\ \E c \in ValidUses(Self) :
          /\ Uncovered(Self, c[1])
          /\ ~AdjacentPrev(Self, c[1]) /\ AdjacentNext(Self, c[1], c[2])

\* C19: a documented call for an uncovered EBB that is fall-through adjacent
\* to neither neighbouring interval inserts the interval from the EBB to
\* `to` at its sorted position, leaves every other interval and the def
\* interval alone, lengthens liveins by one and returns true.
C19_InsertFresh ==
    \A c \in ValidUses(Self) :
        (Uncovered(Self, c[1]) /\ ~AdjacentPrev(Self, c[1])
            /\ ~AdjacentNext(Self, c[1], c[2])) =>
          \A r \in {After(c)} : \A k \in {InsertionPoint(Self, c[1])} :
              /\ r.ret = "true"
              /\ Len(r.lr.liveins) = Len(liveins) + 1
              /\ r.lr.liveins =
                    SubSeq(liveins, 1, k)
                    \o <<[begin |-> c[1], end |-> c[2]]>>
                    \o SubSeq(liveins, k + 1, Len(liveins))
              /\ r.lr.def_begin = def_begin /\ r.lr.def_end = def_end

\* A fresh interval has just been inserted between two others, and its EBB
\* follows the EBB where the interval before it ends.
C19_Witness ==
    /\ last.op = "extend" /\ last.ret = "true"
    /\ Len(liveins) >= 3
    /\ \E i \in 2..(Len(liveins) - 1) :
          /\ pp_ebb(liveins[i].end) = liveins[i].begin
          /\ liveins[i].begin = pp_ebb(liveins[i - 1].end) + EbbStride

\* C20: a documented call for the defining EBB with `to` after def_begin
\* returns false, sets def_end to the later of def_end and `to`, and leaves
\* def_begin and liveins alone, also for an EBB argument defined at the EBB
\* header.
C20_DefEbbFrame ==
    \A c \in ValidUses(Self) :
        (c[1] = DefEbb(Self) /\ cmp(c[2], def_begin) = "Greater") =>
            After(c) =
                [lr |-> [Self EXCEPT !.def_end =
                            IF cmp(c[2], def_end) = "Greater"
                            THEN c[2] ELSE def_end],
                 ret |-> "false"]

\* An EBB argument with live-in intervals has had its def interval
\* extended, and an earlier instruction of its EBB can still be used.
C20_Witness ==
    /\ last.op = "extend" /\ last.ret = "false"
    /\ def_begin \in Ebbs /\ ~is_dead(Self) /\ ~is_local(Self)
    /\ \E c \in ValidUses(Self) :
          c[1] = DefEbb(Self) /\ cmp(c[2], def_end) = "Less"

\* C21: new(value, def) yields a range that is dead and local, with def()
\* and def_local_end() both equal to def and livein_local_end(ebb) None for
\* every EBB, whether def is an instruction or an EBB header.
C21_NewIsDeadLocal ==
    last.op = "new" =>
        /\ is_dead(Self) /\ is_local(Self)
        /\ def_point(Self) = last.from
        /\ def_local_end(Self) = last.from
        /\ \A ebb \in Ebbs : livein_local_end(Self, ebb) = None
        /\ Self = new(last.from)

\* A range has just been created for an EBB argument, and another one for
\* the last instruction of an EBB.
C21_Witness ==
    /\ last.op = "new"
    /\ def_begin \in Ebbs \/ def_begin + 1 \notin Insts

\* C22: move_def_locally(def) sets def_begin to def whatever def is and
\* leaves def_end and liveins alone; after a move that stays in the defining
\* EBB and at or before def_local_end(), def_begin is at or before def_end,
\* both are in one EBB, and no live-in interval overlaps the defining EBB.
C22_MoveDefFrame ==
    /\ \A def \in Points :
          move_def_locally(Self, def) = [Self EXCEPT !.def_begin = def]
    /\ (last.op = "move" /\ last.kind = "documented") =>
          /\ cmp(def_begin, def_end) # "Greater"
          /\ pp_ebb(def_begin) = pp_ebb(def_end)
          /\ pp_ebb(def_begin) = pp_ebb(last.from)
          /\ \A i \in 1..Len(liveins) :
                \/ cmp(liveins[i].end, def_begin) = "Less"
                \/ cmp(liveins[i].begin, def_end) = "Greater"
          /\ livein_local_end(Self, DefEbb(Self)) = None

\* The def of a value with live-in intervals on both sides of its EBB has
\* just been moved to an earlier point of the EBB.
C22_Witness ==
    /\ last.op = "move" /\ last.kind = "documented"
    /\ cmp(def_begin, last.from) = "Less"
    /\ \E i, j \in 1..Len(liveins) :
          /\ cmp(liveins[i].end, def_begin) = "Less"
          /\ cmp(liveins[j].begin, def_end) = "Greater"

\* C23 as stated: a documented call for an EBB covered by live-in interval
\* n returns false, leaves the begin of the interval alone and sets its end
\* to the later of the old end and `to`, so that a `to` the interval already
\* covers changes nothing; def_begin and def_end are unchanged.
C23_CoveredOnlyExtends ==
    \A c \in ValidUses(Self) : \A n \in CoveringLiveins(Self, c[1]) :
        After(c) =
            [lr |-> [Self EXCEPT !.liveins[n].end =
                        Later(liveins[n].end, c[2])],
             ret |-> "false"]

\* C23 amended: a documented call for an EBB covered by live-in interval n
\* returns false and leaves def_begin, def_end, the begin of interval n and
\* every interval before n alone. When `to` is not the terminator falling
\* through to the begin of interval n+1, the end of interval n becomes the
\* later of the old end and `to` and nothing else changes; when it is,
\* interval n+1 is merged into n, which then ends where n+1 ended, also when
\* interval n already covered `to`.
C23_CoveredExtendsOrMerges ==
    \A c \in ValidUses(Self) : \A n \in CoveringLiveins(Self, c[1]) :
        After(c) =
            [lr |-> [Self EXCEPT !.liveins =
                        IF n < Len(liveins)
                           /\ is_ebb_gap(c[2], liveins[n + 1].begin)
                        THEN SubSeq(liveins, 1, n - 1)
                             \o <<[begin |-> liveins[n].begin,
                                   end |-> liveins[n + 1].end]>>
                             \o SubSeq(liveins, n + 2, Len(liveins))
                        ELSE [liveins EXCEPT ![n].end =
                                 Later(liveins[n].end, c[2])]],
             ret |-> "false"]

\* An interval that ends after the terminator of its EBB is followed by an
\* interval beginning at the next EBB: the call with the terminator, which
\* the interval covers, merges the two; another call only extends an
\* interval.
C23_Witness ==
    /\ last.op = "extend"
    /\ \E c \in ValidUses(Self) : \E n \in CoveringLiveins(Self, c[1]) :
          /\ cmp(c[2], liveins[n].end) = "Less"
          /\ Len(After(c).lr.liveins) < Len(liveins)
    /\ \E c \in ValidUses(Self) : \E n \in CoveringLiveins(Self, c[1]) :
          /\ cmp(c[2], liveins[n].end) = "Greater"
          /\ Len(After(c).lr.liveins) = Len(liveins)

C25_NoAdjacentLiveins ==
    \A i \in 1..(Len(liveins) - 1) :
        ~is_ebb_gap(liveins[i].end, liveins[i + 1].begin)

\* A call has just returned true and left three intervals, two of them in
\* consecutive EBBs apart because the first ends after its terminator.
C25_Witness ==
    /\ last.op = "extend" /\ last.ret = "true"
    /\ Len(liveins) >= 3
    /\ \E i \in 1..(Len(liveins) - 1) :
          liveins[i + 1].begin = pp_ebb(liveins[i].end) + EbbStride

\* C26: the coalesced liveins are equivalent to one entry per EBB: after any
\* sequence of documented extend_in_ebb calls livein_local_end(ebb) is Some
\* exactly for the EBBs, other than the defining one, that were passed to
\* extend_in_ebb; and find_ebb_interval(ebb) is Ok(n) exactly when liveins[n]
\* begins at or before ebb and ends after it, and otherwise Err of the
\* number of intervals that begin before ebb.
C26_RefinesPerEbbEntries ==
    \A ebb \in Ebbs :
        /\ livein_local_end(Self, ebb) # None
              <=> (ebb \in passed /\ ebb # DefEbb(Self))
        /\ \A f \in {find_ebb_interval(Self, ebb)} :
              /\ f.ok => (f.n + 1) \in CoveringLiveins(Self, ebb)
              /\ CoveringLiveins(Self, ebb) # {} => f.ok
              /\ ~f.ok => f.n = InsertionPoint(Self, ebb)

\* The defining EBB and more EBBs than there are intervals have been passed
\* to extend_in_ebb, and one EBB never was.
C26_Witness ==
    /\ last.op = "extend"
    /\ DefEbb(Self) \in passed
    /\ Cardinality(passed \ {DefEbb(Self)}) > Len(liveins)
    /\ passed # Ebbs

\* C27: extend_in_ebb returns true at most once for an EBB: once a call for
\* an EBB has returned true, every later documented call for that EBB
\* returns false, whatever calls happened in between.
C27_TrueAtMostOnce ==
    /\ \A c \in ValidUses(Self) :
          c[1] \in trued => After(c).ret = "false"
    /\ trued \subseteq passed

\* True has been returned for three EBBs, and a call for one of them can
\* still extend its interval.
C27_Witness ==
    /\ last.op = "extend"
    /\ Cardinality(trued) >= 3
    /\ \E c \in ValidUses(Self) :
          c[1] \in trued /\ After(c).lr.liveins # liveins

C29_QueriesAgree ==
    \A ebb \in Ebbs : \A u \in InstsOf(ebb) :
        u # def_begin =>
            (reaches_use(Self, u, ebb)
                <=> (overlaps_def(Self, u, ebb) \/ killed_at(Self, u, ebb)))

\* The def has been moved, and the value is live through one instruction,
\* dies at another and does not reach a third, in its def interval as in a
\* live-in interval.
C29_Witness ==
    /\ last.op = "move" /\ ~is_dead(Self)
    /\ killed_at(Self, def_end, pp_ebb(def_end))
    /\ \E ebb \in Ebbs \ {DefEbb(Self)} : \E u, v \in InstsOf(ebb) :
          /\ overlaps_def(Self, u, ebb)
          /\ killed_at(Self, v, ebb)
    /\ \E ebb \in Ebbs : \E u \in InstsOf(ebb) :
          u # def_begin /\ ~reaches_use(Self, u, ebb)

\* C30: the worklist walk, which calls extend_in_ebb for each pending item
\* and enqueues the CFG predecessors of the EBB only when the call returns
\* true, eventually empties its worklist, also on a CFG with loops.
C30_WalkTerminates == <>(worklist = {})

\* The walk has emptied its worklist after going around a loop: a branch
\* leads back from a live-in EBB to a live-in EBB at or before it.
C30_Witness ==
    /\ worklist = {} /\ last.op = "extend"
    /\ Cardinality(trued) >= 2
    /\ \E e \in preds :
          /\ e \notin FallThrough
          /\ cmp(e[2], e[1]) = "Less"
          /\ \A b \in Ebbs :
                (b >= e[2] /\ b <= inst_ebb(e[1])) =>
                    /\ b \in trued
                    /\ b < inst_ebb(e[1]) => <<b + 1, b + EbbStride>> \in preds

====
